---- MODULE Spec2Model ----
(***************************************************************************)
(* JSON conversions of reqwest-websocket's Message (src/json.rs):          *)
(*   Message::text_from_json, Message::binary_from_json, Message::json.    *)
(*                                                                         *)
(* The three functions delegate to serde_json (to_string, to_vec,          *)
(* from_str, from_slice).  The serializer and the parser are modelled by   *)
(* what they do on bytes: values are written as compact JSON, bodies are   *)
(* parsed byte by byte, directed by the target type T.                     *)
(*                                                                         *)
(* Text is a sequence of Unicode code points, bytes are numbers 0..255.    *)
(***************************************************************************)
EXTENDS Integers, Sequences, FiniteSets, TLC

(***************************************************************************)
(* Result<T, E>                                                            *)
(***************************************************************************)
Ok(x) == <<"Ok", x>>
Err(e) == <<"Err", e>>
IsOk(r) == r[1] = "Ok"
IsErr(r) == r[1] = "Err"

\* let x = e; F(x)
With(x, F(_)) == F(x)

(***************************************************************************)
(* Rust values (the T of text_from_json<T>, binary_from_json<T>, json<T>)  *)
(* and their types.  A value is <<tag, payload>>.                          *)
(*   f64 payload: <<"fin", num, scale>> is num / 10^scale in lowest form,  *)
(*                <<"nan", 0, 0>>, <<"inf", 0, 0>>.                        *)
(*   Map payload: the entries <<key, value>> in key order (BTreeMap).      *)
(*   Custom: a type whose Serialize implementation returns an error.       *)
(***************************************************************************)
Unit == <<"unit", 0>>
Bool(b) == <<"bool", b>>
I64(n) == <<"i64", n>>
F64(kind, num, scale) == <<"f64", <<kind, num, scale>>>>
Str(s) == <<"String", s>>
Vec(items) == <<"Vec", items>>
Map(entries) == <<"Map", entries>>
Custom == <<"Custom", 0>>

TUnit == <<"unit">>
TBool == <<"bool">>
TI64 == <<"i64">>
TF64 == <<"f64">>
TString == <<"String">>
TVec(X) == <<"Vec", X>>
TMap(K, V) == <<"Map", K, V>>
TCustom == <<"Custom">>

(***************************************************************************)
(* Bytes of the JSON syntax.                                               *)
(***************************************************************************)
Byte == [quote |-> 34, plus |-> 43, comma |-> 44, minus |-> 45, dot |-> 46,
         slash |-> 47, zero |-> 48, nine |-> 57, colon |-> 58,
         lbracket |-> 91, backslash |-> 92, rbracket |-> 93,
         lbrace |-> 123, rbrace |-> 125,
         space |-> 32, tab |-> 9, lf |-> 10, cr |-> 13, bs |-> 8, ff |-> 12,
         a |-> 97, b |-> 98, e |-> 101, f |-> 102, n |-> 110, r |-> 114,
         t |-> 116, u |-> 117, E |-> 69, A |-> 65, F |-> 70]

Ident == [null |-> <<110, 117, 108, 108>>,
          true |-> <<116, 114, 117, 101>>,
          false |-> <<102, 97, 108, 115, 101>>]

IsDigit(c) == c >= Byte.zero /\ c <= Byte.nine

RECURSIVE Pow10(_)
Pow10(k) == IF k <= 0 THEN 1 ELSE 10 * Pow10(k - 1)

Abs(n) == IF n < 0 THEN -n ELSE n

(***************************************************************************)
(* UTF-8: String::as_bytes / str::from_utf8.                               *)
(***************************************************************************)
Utf8Char(cp) ==
    IF cp < 128 THEN <<cp>>
    ELSE IF cp < 2048 THEN <<192 + (cp \div 64), 128 + (cp % 64)>>
    ELSE IF cp < 65536
         THEN <<224 + (cp \div 4096), 128 + ((cp \div 64) % 64), 128 + (cp % 64)>>
    ELSE <<240 + (cp \div 262144), 128 + ((cp \div 4096) % 64),
           128 + ((cp \div 64) % 64), 128 + (cp % 64)>>

RECURSIVE Utf8Encode(_)
Utf8Encode(s) == IF s = <<>> THEN <<>> ELSE Utf8Char(Head(s)) \o Utf8Encode(Tail(s))

IsCont(b, i) == i <= Len(b) /\ b[i] >= 128 /\ b[i] <= 191

\* str::from_utf8: Ok(code points) or Err("Utf8Error").
RECURSIVE FromUtf8At(_, _, _)
FromUtf8At(b, i, acc) ==
    IF i > Len(b) THEN Ok(acc)
    ELSE LET c == b[i] IN
         IF c < 128 THEN FromUtf8At(b, i + 1, Append(acc, c))
         ELSE IF c >= 194 /\ c <= 223 /\ IsCont(b, i + 1)
              THEN FromUtf8At(b, i + 2, Append(acc, (c - 192) * 64 + (b[i + 1] - 128)))
         ELSE IF c >= 224 /\ c <= 239 /\ IsCont(b, i + 1) /\ IsCont(b, i + 2)
                 /\ (c = 224 => b[i + 1] >= 160) /\ (c = 237 => b[i + 1] <= 159)
              THEN FromUtf8At(b, i + 3,
                     Append(acc, (c - 224) * 4096 + (b[i + 1] - 128) * 64 + (b[i + 2] - 128)))
         ELSE IF c >= 240 /\ c <= 244 /\ IsCont(b, i + 1) /\ IsCont(b, i + 2)
                 /\ IsCont(b, i + 3)
                 /\ (c = 240 => b[i + 1] >= 144) /\ (c = 244 => b[i + 1] <= 143)
              THEN FromUtf8At(b, i + 4,
                     Append(acc, (c - 240) * 262144 + (b[i + 1] - 128) * 4096
                                 + (b[i + 2] - 128) * 64 + (b[i + 3] - 128)))
         ELSE Err("Utf8Error")

from_utf8(b) == FromUtf8At(b, 1, <<>>)

\* String::from_utf8_unchecked: the bytes are taken to be UTF-8.  On bytes
\* that are not, the String is invalid; the serializer only writes UTF-8.
from_utf8_unchecked(b) == With(from_utf8(b), LAMBDA r : IF IsOk(r) THEN r[2] ELSE <<>>)

(***************************************************************************)
(* serde_json::to_vec: the compact serializer.                             *)
(***************************************************************************)
RECURSIVE itoa_u(_)
itoa_u(n) == IF n < 10 THEN <<Byte.zero + n>>
             ELSE itoa_u(n \div 10) \o <<Byte.zero + (n % 10)>>

itoa(n) == IF n < 0 THEN <<Byte.minus>> \o itoa_u(-n) ELSE itoa_u(n)

\* The w low decimal digits of n, zero padded.
RECURSIVE Digits(_, _)
Digits(n, w) == IF w = 0 THEN <<>>
                ELSE Digits(n \div 10, w - 1) \o <<Byte.zero + (n % 10)>>

\* ryu's shortest form of a finite f64: digits, a point, at least one digit.
ryu(f) ==
    LET num == f[2]
        scale == f[3]
        sign == IF num < 0 THEN <<Byte.minus>> ELSE <<>>
        whole == Abs(num) \div Pow10(scale)
        frac == Abs(num) % Pow10(scale)
    IN sign \o itoa_u(whole) \o <<Byte.dot>>
            \o (IF scale = 0 THEN <<Byte.zero>> ELSE Digits(frac, scale))

\* Serializer::serialize_f64: NaN and the infinities are written as null.
serialize_f64(f) == IF f[1] = "fin" THEN ryu(f) ELSE Ident.null

HexDigit(d) == IF d < 10 THEN Byte.zero + d ELSE Byte.a + (d - 10)

\* format_escaped_str_contents, one byte of the string.
EscapeByte(c) ==
    IF c = Byte.quote THEN <<Byte.backslash, Byte.quote>>
    ELSE IF c = Byte.backslash THEN <<Byte.backslash, Byte.backslash>>
    ELSE IF c = Byte.bs THEN <<Byte.backslash, Byte.b>>
    ELSE IF c = Byte.ff THEN <<Byte.backslash, Byte.f>>
    ELSE IF c = Byte.lf THEN <<Byte.backslash, Byte.n>>
    ELSE IF c = Byte.cr THEN <<Byte.backslash, Byte.r>>
    ELSE IF c = Byte.tab THEN <<Byte.backslash, Byte.t>>
    ELSE IF c < 32 THEN <<Byte.backslash, Byte.u, Byte.zero, Byte.zero,
                          HexDigit(c \div 16), HexDigit(c % 16)>>
    ELSE <<c>>

RECURSIVE EscapeBytes(_)
EscapeBytes(b) == IF b = <<>> THEN <<>> ELSE EscapeByte(Head(b)) \o EscapeBytes(Tail(b))

\* Serializer::serialize_str
serialize_str(s) == <<Byte.quote>> \o EscapeBytes(Utf8Encode(s)) \o <<Byte.quote>>

\* MapKeySerializer: a string key as it is, an integer key in quotes; a unit,
\* sequence or map key is no JSON object key.
serialize_key(k) ==
    CASE k[1] = "String" -> Ok(serialize_str(k[2]))
      [] k[1] = "i64" -> Ok(<<Byte.quote>> \o itoa(k[2]) \o <<Byte.quote>>)
      [] k[1] = "Custom" -> Err("Custom")
      [] OTHER -> Err("KeyMustBeAString")

RECURSIVE Serialize(_)
RECURSIVE SerializeSeq(_, _, _)
RECURSIVE SerializeMap(_, _, _)

\* The elements from index i on, after acc; the first error ends it.
SerializeSeq(items, i, acc) ==
    IF i > Len(items) THEN Ok(acc \o <<Byte.rbracket>>)
    ELSE With(Serialize(items[i]), LAMBDA r :
         IF IsErr(r) THEN r
         ELSE SerializeSeq(items, i + 1,
                           acc \o (IF i > 1 THEN <<Byte.comma>> ELSE <<>>) \o r[2]))

SerializeMap(entries, i, acc) ==
    IF i > Len(entries) THEN Ok(acc \o <<Byte.rbrace>>)
    ELSE With(serialize_key(entries[i][1]), LAMBDA k :
         IF IsErr(k) THEN k
         ELSE With(Serialize(entries[i][2]), LAMBDA r :
              IF IsErr(r) THEN r
              ELSE SerializeMap(entries, i + 1,
                       acc \o (IF i > 1 THEN <<Byte.comma>> ELSE <<>>)
                           \o k[2] \o <<Byte.colon>> \o r[2])))

\* <T as Serialize>::serialize into serde_json's Serializer.
Serialize(v) ==
    CASE v[1] = "unit" -> Ok(Ident.null)
      [] v[1] = "bool" -> Ok(IF v[2] THEN Ident.true ELSE Ident.false)
      [] v[1] = "i64" -> Ok(itoa(v[2]))
      [] v[1] = "f64" -> Ok(serialize_f64(v[2]))
      [] v[1] = "String" -> Ok(serialize_str(v[2]))
      [] v[1] = "Vec" -> SerializeSeq(v[2], 1, <<Byte.lbracket>>)
      [] v[1] = "Map" -> SerializeMap(v[2], 1, <<Byte.lbrace>>)
      [] v[1] = "Custom" -> Err("Custom")

to_vec(v) == Serialize(v)

\* serde_json::to_string: to_vec, then String::from_utf8_unchecked.
to_string(v) ==
    With(to_vec(v), LAMBDA r : IF IsErr(r) THEN r ELSE Ok(from_utf8_unchecked(r[2])))

(***************************************************************************)
(* serde_json's Deserializer over a byte slice (SliceRead; StrRead wraps   *)
(* it).  b is the input, i the index of the next byte.  A parse step       *)
(* returns [ok, v, i]: ok with the value v and the next index, or not ok   *)
(* with v the error code.                                                  *)
(***************************************************************************)
Good(v, i) == [ok |-> TRUE, v |-> v, i |-> i]
Bad(code) == [ok |-> FALSE, v |-> code, i |-> 0]

None == -1
peek(b, i) == IF i <= Len(b) THEN b[i] ELSE None

IsWhitespace(c) == c \in {Byte.space, Byte.lf, Byte.tab, Byte.cr}

\* Deserializer::parse_whitespace: the index of the first byte that is none.
RECURSIVE parse_whitespace(_, _)
parse_whitespace(b, i) ==
    IF i <= Len(b) /\ IsWhitespace(b[i]) THEN parse_whitespace(b, i + 1) ELSE i

\* Deserializer::parse_ident: the rest of null, true or false.
RECURSIVE parse_ident(_, _, _, _)
parse_ident(b, i, ident, k) ==
    IF k > Len(ident) THEN Good(0, i)
    ELSE IF peek(b, i) = None THEN Bad("EofWhileParsingValue")
    ELSE IF b[i] # ident[k] THEN Bad("ExpectedSomeIdent")
    ELSE parse_ident(b, i + 1, ident, k + 1)

\* f64_from_parts: +- significand * 10^exponent, in lowest form.
RECURSIVE Lowest(_, _)
Lowest(num, scale) ==
    IF scale > 0 /\ num % 10 = 0 THEN Lowest(num \div 10, scale - 1)
    ELSE <<"fin", num, scale>>

f64_from_parts(positive, significand, exponent) ==
    LET s == IF positive THEN significand ELSE -significand IN
    IF exponent >= 0 THEN <<"fin", s * Pow10(exponent), 0>>
    ELSE IF positive THEN Lowest(significand, -exponent)
    ELSE LET l == Lowest(significand, -exponent) IN <<"fin", -l[2], l[3]>>

\* The digits from i on: <<value after acc, number of digits, next index>>.
RECURSIVE ParseDigits(_, _, _, _)
ParseDigits(b, i, acc, count) ==
    IF i <= Len(b) /\ IsDigit(b[i])
    THEN ParseDigits(b, i + 1, acc * 10 + (b[i] - Byte.zero), count + 1)
    ELSE <<acc, count, i>>

\* Deserializer::parse_exponent, at the e: the sign, then the digits d from k.
parse_exponent(b, i, positive, significand, starting_exp) ==
    With(IF peek(b, i + 1) \in {Byte.plus, Byte.minus} THEN i + 2 ELSE i + 1, LAMBDA k :
    With(ParseDigits(b, k, 0, 0), LAMBDA d :
       IF peek(b, k) = None THEN Bad("EofWhileParsingValue")
       ELSE IF d[2] = 0 THEN Bad("InvalidNumber")
       ELSE Good(<<"F64", f64_from_parts(positive, significand,
                          IF peek(b, i + 1) # Byte.minus THEN starting_exp + d[1]
                          ELSE starting_exp - d[1])>>, d[3])))

\* Deserializer::parse_decimal, at the point.
parse_decimal(b, i, positive, significand) ==
    With(ParseDigits(b, i + 1, significand, 0), LAMBDA d :
    IF d[2] = 0
    THEN (IF peek(b, i + 1) = None THEN Bad("EofWhileParsingValue")
          ELSE Bad("InvalidNumber"))
    ELSE IF peek(b, d[3]) \in {Byte.e, Byte.E}
         THEN parse_exponent(b, d[3], positive, d[1], -d[2])
    ELSE Good(<<"F64", f64_from_parts(positive, d[1], -d[2])>>, d[3]))

\* Deserializer::parse_number: after the integer digits.  -0 is the float -0.0.
parse_number(b, i, positive, significand) ==
    IF peek(b, i) = Byte.dot THEN parse_decimal(b, i, positive, significand)
    ELSE IF peek(b, i) \in {Byte.e, Byte.E}
         THEN parse_exponent(b, i, positive, significand, 0)
    ELSE IF positive THEN Good(<<"U64", significand>>, i)
    ELSE IF significand = 0 THEN Good(<<"F64", <<"fin", 0, 0>>>>, i)
    ELSE Good(<<"I64", -significand>>, i)

\* Deserializer::parse_integer, at the first digit (after a minus sign).
parse_integer(b, i, positive) ==
    IF peek(b, i) = None THEN Bad("EofWhileParsingValue")
    ELSE IF peek(b, i) = Byte.zero /\ IsDigit(peek(b, i + 1)) THEN Bad("InvalidNumber")
    ELSE IF IsDigit(peek(b, i))
         THEN With(ParseDigits(b, i, 0, 0), LAMBDA d :
                   parse_number(b, d[3], positive, d[1]))
    ELSE Bad("InvalidNumber")

HexVal(c) ==
    IF IsDigit(c) THEN c - Byte.zero
    ELSE IF c >= Byte.a /\ c <= Byte.f THEN c - Byte.a + 10
    ELSE IF c >= Byte.A /\ c <= Byte.F THEN c - Byte.A + 10
    ELSE None

\* decode_hex_escape: four hex digits at i.
decode_hex_escape(b, i) ==
    IF i + 3 > Len(b) THEN Bad("EofWhileParsingString")
    ELSE With([k \in 0..3 |-> HexVal(b[i + k])], LAMBDA h :
         IF \E k \in 0..3 : h[k] = None THEN Bad("InvalidEscape")
         ELSE Good(h[0] * 4096 + h[1] * 256 + h[2] * 16 + h[3], i + 4))

IsSurrogate(n, lo, hi) == n >= lo /\ n <= hi

\* parse_unicode_escape: \uXXXX, a surrogate pair being two of them.
parse_unicode_escape(b, i) ==
    With(decode_hex_escape(b, i), LAMBDA n1 :
      IF ~n1.ok THEN n1
      ELSE IF IsSurrogate(n1.v, 56320, 57343)
           THEN Bad("LoneLeadingSurrogateInHexEscape")
      ELSE IF ~IsSurrogate(n1.v, 55296, 56319) THEN Good(Utf8Char(n1.v), n1.i)
      ELSE IF peek(b, n1.i) = None \/ peek(b, n1.i + 1) = None
           THEN Bad("EofWhileParsingString")
      ELSE IF b[n1.i] # Byte.backslash \/ b[n1.i + 1] # Byte.u
           THEN Bad("UnexpectedEndOfHexEscape")
      ELSE With(decode_hex_escape(b, n1.i + 2), LAMBDA n2 :
             IF ~n2.ok THEN n2
             ELSE IF ~IsSurrogate(n2.v, 56320, 57343)
                  THEN Bad("LoneLeadingSurrogateInHexEscape")
             ELSE Good(Utf8Char((n1.v - 55296) * 1024 + (n2.v - 56320) + 65536),
                       n2.i)))

\* parse_escape, after the backslash: the bytes the escape stands for.
parse_escape(b, i) ==
    With(peek(b, i), LAMBDA c :
    IF c = None THEN Bad("EofWhileParsingString")
    ELSE IF c \in {Byte.quote, Byte.backslash, Byte.slash} THEN Good(<<c>>, i + 1)
    ELSE IF c = Byte.b THEN Good(<<Byte.bs>>, i + 1)
    ELSE IF c = Byte.f THEN Good(<<Byte.ff>>, i + 1)
    ELSE IF c = Byte.n THEN Good(<<Byte.lf>>, i + 1)
    ELSE IF c = Byte.r THEN Good(<<Byte.cr>>, i + 1)
    ELSE IF c = Byte.t THEN Good(<<Byte.tab>>, i + 1)
    ELSE IF c = Byte.u THEN parse_unicode_escape(b, i + 1)
    ELSE Bad("InvalidEscape"))

\* SliceRead::parse_str_bytes, after the opening quote: the raw bytes of the
\* string up to the closing quote.
RECURSIVE parse_str_bytes(_, _, _)
parse_str_bytes(b, i, scratch) ==
    With(peek(b, i), LAMBDA c :
    IF c = None THEN Bad("EofWhileParsingString")
    ELSE IF c = Byte.quote THEN Good(scratch, i + 1)
    ELSE IF c = Byte.backslash
         THEN With(parse_escape(b, i + 1), LAMBDA e :
              IF ~e.ok THEN e ELSE parse_str_bytes(b, e.i, scratch \o e.v))
    ELSE IF c < 32 THEN Bad("ControlCharacterWhileParsingString")
    ELSE parse_str_bytes(b, i + 1, Append(scratch, c)))

\* Read::parse_str: the bytes must be UTF-8 (SliceRead checks them; a str
\* input is UTF-8 already).
parse_str(b, i) ==
    With(parse_str_bytes(b, i, <<>>), LAMBDA r :
    IF ~r.ok THEN r
    ELSE With(from_utf8(r.v), LAMBDA s :
         IF IsErr(s) THEN Bad("InvalidUnicodeCodePoint") ELSE Good(s[2], r.i)))

\* The value at i, of whatever kind, as far as its kind is parsed before a
\* type error is reported: idents, numbers and strings whole, a list or an
\* object not at all.
parse_any(b, i) ==
    With(peek(b, i), LAMBDA c :
         IF c = Byte.n THEN parse_ident(b, i + 1, Ident.null, 2)
         ELSE IF c = Byte.t THEN parse_ident(b, i + 1, Ident.true, 2)
         ELSE IF c = Byte.f THEN parse_ident(b, i + 1, Ident.false, 2)
         ELSE IF c = Byte.minus THEN parse_integer(b, i + 1, FALSE)
         ELSE IF IsDigit(c) THEN parse_integer(b, i, TRUE)
         ELSE IF c = Byte.quote THEN parse_str(b, i + 1)
         ELSE IF c \in {Byte.lbracket, Byte.lbrace} THEN Good(0, i)
         ELSE Bad("ExpectedSomeValue"))

\* Deserializer::peek_invalid_type, at a byte no Visitor of T accepts: the
\* error of the value at i, or that its type is not T's.
peek_invalid_type(b, i) ==
    With(parse_any(b, i), LAMBDA r : IF r.ok THEN Bad("InvalidType") ELSE r)

\* deserialize_number: the number at i, or why there is none.
deserialize_number(b, i) ==
    IF peek(b, i) = Byte.minus THEN parse_integer(b, i + 1, FALSE)
    ELSE IF IsDigit(peek(b, i)) THEN parse_integer(b, i, TRUE)
    ELSE peek_invalid_type(b, i)

\* The primitive visitors of i64 and f64.
visit_i64(n) ==
    IF n[1] \in {"U64", "I64"} THEN Ok(I64(n[2])) ELSE Err("InvalidType")

visit_f64(n) ==
    IF n[1] \in {"U64", "I64"} THEN Ok(<<"f64", <<"fin", n[2], 0>>>>)
    ELSE Ok(<<"f64", n[2]>>)

\* Key order of a BTreeMap: integers by value, strings by their bytes.
RECURSIVE SeqLess(_, _)
SeqLess(s, t) ==
    IF t = <<>> THEN FALSE
    ELSE IF s = <<>> THEN TRUE
    ELSE IF Head(s) # Head(t) THEN Head(s) < Head(t)
    ELSE SeqLess(Tail(s), Tail(t))

KeyLess(k1, k2) ==
    CASE k1[1] = "i64" -> k1[2] < k2[2]
      [] k1[1] = "String" -> SeqLess(Utf8Encode(k1[2]), Utf8Encode(k2[2]))
      [] OTHER -> FALSE

\* BTreeMap::insert: the entry in key order, replacing an equal key's.
insert(entries, k, v) ==
    LET less == SelectSeq(entries, LAMBDA e : KeyLess(e[1], k))
        more == SelectSeq(entries, LAMBDA e : KeyLess(k, e[1]))
    IN less \o <<<<k, v>>>> \o more

(***************************************************************************)
(* <T as Deserialize>::deserialize from serde_json's Deserializer, for     *)
(* the target type T, at index i.                                          *)
(***************************************************************************)
RECURSIVE Deserialize(_, _, _)
RECURSIVE SeqAccess(_, _, _, _, _)
RECURSIVE MapAccess(_, _, _, _, _, _)

\* The Result of a visitor, as a parse step ending at i.
visited(v, i) == IF IsErr(v) THEN Bad(v[2]) ELSE Good(v[2], i)

\* A parse step's value wrapped by the constructor C.
wrap(r, C(_)) == IF r.ok THEN Good(C(r.v), r.i) ELSE r

\* MapKey: the key of an object, read as the key type K.  i is at the quote.
deserialize_key(K, b, i) ==
    CASE K = TString -> wrap(parse_str(b, i + 1), Str)
      [] K = TI64 ->
           IF ~(IsDigit(peek(b, i + 1)) \/ peek(b, i + 1) = Byte.minus)
           THEN Bad("ExpectedNumericKey")
           ELSE With(deserialize_number(b, i + 1), LAMBDA n :
                IF ~n.ok THEN n
                ELSE IF IsErr(visit_i64(n.v)) THEN Bad("InvalidType")
                ELSE IF peek(b, n.i) # Byte.quote THEN Bad("ExpectedDoubleQuote")
                ELSE Good(visit_i64(n.v)[2], n.i + 1))
      [] OTHER ->
           \* deserialize_any: the key is a string, which no other visitor takes
           With(parse_str(b, i + 1), LAMBDA r : IF r.ok THEN Bad("InvalidType") ELSE r)

\* SeqAccess::next_element_seed until the list ends, then end_seq.
SeqAccess(X, b, i, first, acc) ==
    With(parse_whitespace(b, i), LAMBDA j :
    With(peek(b, j), LAMBDA c :
       IF c = None THEN Bad("EofWhileParsingList")
       ELSE IF c = Byte.rbracket THEN Good(Vec(acc), j + 1)
       ELSE IF ~first /\ c # Byte.comma THEN Bad("ExpectedListCommaOrEnd")
       ELSE With(IF first THEN j ELSE parse_whitespace(b, j + 1), LAMBDA k :
            IF ~first /\ peek(b, k) = Byte.rbracket THEN Bad("TrailingComma")
            ELSE With(Deserialize(X, b, k), LAMBDA e :
                 IF ~e.ok THEN e
                 ELSE SeqAccess(X, b, e.i, FALSE, Append(acc, e.v))))))

\* MapAccess::next_value_seed: the colon, then the value of the key.
next_value(V, b, i) ==
    With(parse_whitespace(b, i), LAMBDA m :
         IF peek(b, m) = None THEN Bad("EofWhileParsingObject")
         ELSE IF peek(b, m) # Byte.colon THEN Bad("ExpectedColon")
         ELSE Deserialize(V, b, m + 1))

\* MapAccess::next_key_seed and next_value_seed until the object ends, then
\* end_map.
MapAccess(K, V, b, i, first, acc) ==
    With(parse_whitespace(b, i), LAMBDA j :
    With(peek(b, j), LAMBDA c :
       IF c = None THEN Bad("EofWhileParsingObject")
       ELSE IF c = Byte.rbrace THEN Good(Map(acc), j + 1)
       ELSE IF ~first /\ c # Byte.comma THEN Bad("ExpectedObjectCommaOrEnd")
       ELSE With(IF first THEN j ELSE parse_whitespace(b, j + 1), LAMBDA k :
            With(peek(b, k), LAMBDA d :
               IF d = None THEN Bad("EofWhileParsingValue")
               ELSE IF d = Byte.rbrace THEN Bad("TrailingComma")
               ELSE IF d # Byte.quote THEN Bad("KeyMustBeAString")
               ELSE With(deserialize_key(K, b, k), LAMBDA key :
                    IF ~key.ok THEN key
                    ELSE With(next_value(V, b, key.i), LAMBDA val :
                         IF ~val.ok THEN val
                         ELSE MapAccess(K, V, b, val.i, FALSE,
                                        insert(acc, key.v, val.v))))))))

\* Whether the byte c begins a value the visitor of T accepts.
Accepts(T, c) ==
    CASE T = TUnit -> c = Byte.n
      [] T = TBool -> c \in {Byte.t, Byte.f}
      [] T \in {TI64, TF64} -> TRUE
      [] T = TString -> c = Byte.quote
      [] T[1] = "Vec" -> c = Byte.lbracket
      [] T[1] = "Map" -> c = Byte.lbrace

Deserialize(T, b, i0) ==
    With(parse_whitespace(b, i0), LAMBDA i :
    With(peek(b, i), LAMBDA c :
       IF c = None THEN Bad("EofWhileParsingValue")
       ELSE IF ~Accepts(T, c) THEN peek_invalid_type(b, i)
       ELSE CASE T = TUnit ->
                   wrap(parse_ident(b, i + 1, Ident.null, 2), LAMBDA x : Unit)
              [] T = TBool ->
                   IF c = Byte.t
                   THEN wrap(parse_ident(b, i + 1, Ident.true, 2), LAMBDA x : Bool(TRUE))
                   ELSE wrap(parse_ident(b, i + 1, Ident.false, 2), LAMBDA x : Bool(FALSE))
              [] T \in {TI64, TF64} ->
                   With(deserialize_number(b, i), LAMBDA n :
                   IF ~n.ok THEN n
                   ELSE visited(IF T = TI64 THEN visit_i64(n.v) ELSE visit_f64(n.v), n.i))
              [] T = TString -> wrap(parse_str(b, i + 1), Str)
              [] T[1] = "Vec" -> SeqAccess(T[2], b, i + 1, TRUE, <<>>)
              [] T[1] = "Map" -> MapAccess(T[2], T[3], b, i + 1, TRUE, <<>>)))

\* serde_json::from_slice::<T>: the value, then Deserializer::end (only
\* whitespace may follow).
from_slice(T, b) ==
    With(Deserialize(T, b, 1), LAMBDA r :
    IF ~r.ok THEN Err(r.v)
    ELSE IF peek(b, parse_whitespace(b, r.i)) # None THEN Err("TrailingCharacters")
    ELSE Ok(r.v))

\* serde_json::from_str::<T>: the same Deserializer over the bytes of the str.
from_str(T, x) == from_slice(T, Utf8Encode(x))

(***************************************************************************)
(* crate::Message and crate::Error.                                        *)
(***************************************************************************)
Text(x) == <<"Text", x>>
Binary(x) == <<"Binary", x>>
Ping(x) == <<"Ping", x>>
Pong(x) == <<"Pong", x>>
Close(code, reason) == <<"Close", <<code, reason>>>>

SerdeJson(e) == <<"SerdeJson", e>>
NeitherTextNorBinaryMessage == <<"NeitherTextNorBinaryMessage", "">>

\* impl From<JsonError> for Error (thiserror's #[from] makes JsonError of a
\* serde_json::Error), and impl From<serde_json::Error> for Error.
ErrorFromJsonError(j) == <<"Json", j>>
ErrorFromSerdeJson(e) == ErrorFromJsonError(SerdeJson(e))

NoResult == <<"None", 0>>
NoMessage == <<"None", 0>>

(***************************************************************************)
(* The three functions, each in the two halves a call goes through: the    *)
(* serde_json call, and what the function makes of its result.             *)
(***************************************************************************)
\* Variant of text_map: .map(Message::Text).unwrap_or_default(), the error lost.
text_map_unwrap_or_default(r) == IF IsOk(r) THEN Ok(Text(r[2])) ELSE Ok(Text(<<>>))

\* Variant of text_map: the string wrapped as Message::Binary(s.into_bytes()).
text_map_binary(r) ==
    IF IsOk(r) THEN Ok(Binary(Utf8Encode(r[2]))) ELSE Err(ErrorFromSerdeJson(r[2]))

\* text_from_json: .map(Message::Text).map_err(Into::into)
text_map(r) == IF IsOk(r) THEN Ok(Text(r[2])) ELSE Err(ErrorFromSerdeJson(r[2]))

\* Variant of binary_map: .map_err(|_| JsonError::NeitherTextNorBinaryMessage).
binary_map_wrong_kind(r) ==
    IF IsOk(r) THEN Ok(Binary(r[2]))
    ELSE Err(ErrorFromJsonError(NeitherTextNorBinaryMessage))

\* binary_from_json: .map(Message::Binary).map_err(Into::into)
binary_map(r) == IF IsOk(r) THEN Ok(Binary(r[2])) ELSE Err(ErrorFromSerdeJson(r[2]))

\* Variant of json_match: the Binary arm reads each byte as one char
\* (x.iter().map(|b| *b as char)) and calls from_str.
json_match_bytes_as_chars(T, m) ==
    CASE m[1] = "Text" -> <<"from_str", from_str(T, m[2])>>
      [] m[1] = "Binary" -> <<"from_str", from_str(T, m[2])>>
      [] OTHER -> <<"none", NoResult>>

\* Variant of json_match: Ping and Pong payloads are parsed like Binary.
json_match_any_payload(T, m) ==
    CASE m[1] = "Text" -> <<"from_str", from_str(T, m[2])>>
      [] m[1] \in {"Binary", "Ping", "Pong"} -> <<"from_slice", from_slice(T, m[2])>>
      [] OTHER -> <<"none", NoResult>>

\* json: the match on self.  The serde_json function the arm calls, and its
\* result; the last arm calls none.
json_match(T, m) ==
    CASE m[1] = "Text" -> <<"from_str", from_str(T, m[2])>>
      [] m[1] = "Binary" -> <<"from_slice", from_slice(T, m[2])>>
      [] OTHER -> <<"none", NoResult>>

\* Variant of json_result: every failure is the error of the last arm.
json_result_wrong_kind(m, r) ==
    IF m[1] \in {"Text", "Binary"} /\ IsOk(r) THEN Ok(r[2])
    ELSE Err(ErrorFromJsonError(NeitherTextNorBinaryMessage))

\* json: the ? of the first two arms inside Ok(..), the return of the last.
json_result(m, r) ==
    IF m[1] \in {"Text", "Binary"}
    THEN (IF IsOk(r) THEN Ok(r[2]) ELSE Err(ErrorFromSerdeJson(r[2])))
    ELSE Err(ErrorFromJsonError(NeitherTextNorBinaryMessage))

text_from_json(json) == text_map(to_string(json))
binary_from_json(json) == binary_map(to_vec(json))
json(T, m) == json_result(m, json_match(T, m)[2])

(***************************************************************************)
(* Bounds of the checked instances.                                        *)
(***************************************************************************)
NumTasks == 2
MaxStrLen == 2
MaxVecLen == 2

Tasks == 1..NumTasks
First == CHOOSE t \in Tasks : \A u \in Tasks : t <= u

SeqsUpTo(n, S) == UNION {[1..k -> S] : k \in 0..n}

\* a, the double quote (escaped in JSON) and e-acute (two bytes in UTF-8)
Chars == {97, 34, 233}
Ints == {-1, 0, 10}
Elems == {-1, 10}
StrKeys == {Str(<<97>>), Str(<<34>>)}
IntKeys == {I64(-1), I64(10)}
UnitKeys == {Unit}
MapVals == {I64(1), I64(10)}

\* The entries of the map f, in key order.
RECURSIVE Entries(_, _)
Entries(keys, f) ==
    IF keys = {} THEN <<>>
    ELSE LET k == CHOOSE x \in keys : \A y \in keys \ {x} : KeyLess(x, y) IN
         <<<<k, f[k]>>>> \o Entries(keys \ {k}, f)

Maps(keys, vals) == {Map(Entries(K, f)) : <<K, f>> \in
                        UNION {{<<K, f>> : f \in [K -> vals]} : K \in SUBSET keys}}

VecsOfInts == {Vec(s) : s \in SeqsUpTo(MaxVecLen, {I64(n) : n \in Elems})}

SerTypes == {TUnit, TBool, TI64, TF64, TString, TVec(TI64), TMap(TString, TI64),
             TMap(TI64, TI64), TMap(TUnit, TI64), TMap(TString, TVec(TI64)), TCustom}

ValuesOf(S) ==
    CASE S = TUnit -> {Unit}
      [] S = TBool -> {Bool(TRUE), Bool(FALSE)}
      [] S = TI64 -> {I64(n) : n \in Ints}
      [] S = TF64 -> {F64("fin", 15, 1), F64("fin", 1, 0), F64("nan", 0, 0),
                      F64("inf", 0, 0)}
      [] S = TString -> {Str(s) : s \in SeqsUpTo(MaxStrLen, Chars)}
      [] S = TVec(TI64) -> VecsOfInts
      [] S = TMap(TString, TI64) -> Maps(StrKeys, MapVals)
      [] S = TMap(TI64, TI64) -> Maps(IntKeys, MapVals)
      [] S = TMap(TUnit, TI64) -> Maps(UnitKeys, MapVals)
      [] S = TMap(TString, TVec(TI64)) -> Maps({Str(<<97>>)}, VecsOfInts)
      [] S = TCustom -> {Custom}

\* The target types tried on a value of type S: S itself when it can be
\* deserialized, and types of another JSON shape.
TargetsOf(S) == (IF S = TCustom THEN {} ELSE {S}) \cup {TI64, TString, TMap(TString, TI64)}

Prefixes(b) == {SubSeq(b, 1, k) : k \in 0..(Len(b) - 1)}

\* {not json
NotJson == <<123, 110, 111, 116, 32, 106, 115, 111, 110>>

\* The messages a caller may hold besides the ones it encodes itself: the
\* other variants (with a payload that is JSON), cut-off and padded
\* encodings, and bytes that are no UTF-8.
MessagesFor(v) ==
    With(IF IsOk(to_vec(v)) THEN to_vec(v)[2] ELSE Ident.null, LAMBDA enc :
    With(Prefixes(enc) \cup {enc \o <<Byte.space>>, <<Byte.space>> \o enc, enc \o enc,
                             enc \o <<Byte.comma>>}, LAMBDA bad :
       {Ping(enc), Pong(enc), Close(1000, from_utf8_unchecked(enc))}
       \cup {Binary(b) : b \in bad \cup {<<255>>}}
       \cup {Text(from_utf8_unchecked(b)) : b \in {c \in bad : IsOk(from_utf8(c))}}
       \cup {Text(from_utf8_unchecked(NotJson))}))

(***************************************************************************)
(* The state: what the callers hold and where each call is.                *)
(*   value  the &T passed to text_from_json / binary_from_json, of type S  *)
(*   T      the target type of json::<T>                                   *)
(*   self   a message at hand (the &self of json)                          *)
(*   pc[t]  "ready", or "called": inside the function fn[t]                *)
(*   arg[t] the message and where it came from, of a call of json          *)
(*   lib[t] the serde_json function the call invoked, tmp[t] its result    *)
(*   ret[t] what fn[t] returned                                            *)
(***************************************************************************)
VARIABLES value, S, T, self, pc, fn, arg, lib, tmp, ret

vars == <<value, S, T, self, pc, fn, arg, lib, tmp, ret>>
inputs == <<value, S, T, self>>

NoArg == [m |-> NoMessage, src |-> "none"]

InitTasks ==
    /\ pc = [t \in Tasks |-> "ready"]
    /\ fn = [t \in Tasks |-> "none"]
    /\ arg = [t \in Tasks |-> NoArg]
    /\ lib = [t \in Tasks |-> "none"]
    /\ tmp = [t \in Tasks |-> NoResult]
    /\ ret = [t \in Tasks |-> NoResult]

Init ==
    /\ S \in SerTypes
    /\ value \in ValuesOf(S)
    /\ T \in TargetsOf(S)
    /\ self \in MessagesFor(value)
    /\ InitTasks

\* The callers of the concurrent instances hold one of two messages.
InitConc ==
    /\ S \in SerTypes
    /\ value \in ValuesOf(S)
    /\ T = IF S = TCustom THEN TI64 ELSE S
    /\ self \in {Ping(Ident.null), Text(from_utf8_unchecked(NotJson))}
    /\ InitTasks

Enter(t, f, a, l, r) ==
    /\ pc[t] = "ready"
    /\ pc' = [pc EXCEPT ![t] = "called"]
    /\ fn' = [fn EXCEPT ![t] = f]
    /\ arg' = [arg EXCEPT ![t] = a]
    /\ lib' = [lib EXCEPT ![t] = l]
    /\ tmp' = [tmp EXCEPT ![t] = r]
    /\ ret' = [ret EXCEPT ![t] = NoResult]
    /\ UNCHANGED inputs

Leave(t, f, r) ==
    /\ pc[t] = "called"
    /\ fn[t] = f
    /\ pc' = [pc EXCEPT ![t] = "ready"]
    /\ ret' = [ret EXCEPT ![t] = r]
    /\ UNCHANGED <<inputs, fn, arg, lib, tmp>>

\* Variant of TextFromJsonCall: serde_json::to_vec, each byte read as one char.
TextFromJsonCallBytesAsChars(t) ==
    Enter(t, "text_from_json", NoArg, "to_string", to_vec(value))

\* text_from_json(&value): serde_json::to_string(json)
TextFromJsonCall(t) == Enter(t, "text_from_json", NoArg, "to_string", to_string(value))

TextFromJsonReturn(t) == Leave(t, "text_from_json", text_map(tmp[t]))

\* binary_from_json(&value): serde_json::to_vec(json)
BinaryFromJsonCall(t) == Enter(t, "binary_from_json", NoArg, "to_vec", to_vec(value))

BinaryFromJsonReturn(t) == Leave(t, "binary_from_json", binary_map(tmp[t]))

\* The messages json can be called on: the one at hand, and the ones the
\* encoding functions have returned.
Held(u) == pc[u] = "ready" /\ fn[u] \in {"text_from_json", "binary_from_json"}
           /\ IsOk(ret[u])

Available ==
    {[m |-> self, src |-> "self"]}
    \cup {[m |-> ret[u][2], src |-> fn[u]] : u \in {x \in Tasks : Held(x)}}

\* Variant of JsonCall: the body is taken out of the message at hand
\* (std::mem::take), which is left empty.
JsonCallTake(t, a) ==
    /\ pc[t] = "ready"
    /\ pc' = [pc EXCEPT ![t] = "called"]
    /\ fn' = [fn EXCEPT ![t] = "json"]
    /\ arg' = [arg EXCEPT ![t] = a]
    /\ lib' = [lib EXCEPT ![t] = json_match(T, a.m)[1]]
    /\ tmp' = [tmp EXCEPT ![t] = json_match(T, a.m)[2]]
    /\ ret' = [ret EXCEPT ![t] = NoResult]
    /\ self' = IF a.src = "self" /\ self[1] \in {"Text", "Binary"}
               THEN <<self[1], <<>>>> ELSE self
    /\ UNCHANGED <<value, S, T>>

\* a.m.json::<T>(): the match on self and the serde_json call of its arm
JsonCall(t, a) ==
    Enter(t, "json", a, json_match(T, a.m)[1], json_match(T, a.m)[2])

JsonReturn(t) == Leave(t, "json", json_result(arg[t].m, tmp[t]))

Step(t) ==
    \/ TextFromJsonCall(t)
    \/ TextFromJsonReturn(t)
    \/ BinaryFromJsonCall(t)
    \/ BinaryFromJsonReturn(t)
    \/ \E a \in Available : JsonCall(t, a)
    \/ JsonReturn(t)

\* One caller, one call after the other.
Next == Step(First)

Spec == Init /\ [][Next]_vars

\* Any number of callers, their calls interleaved.
NextConc == \E t \in Tasks : Step(t)

SpecConc == InitConc /\ [][NextConc]_vars

(***************************************************************************)
(* What the properties below speak of.                                     *)
(***************************************************************************)
Encoders == {"text_from_json", "binary_from_json"}

\* The call of f by t has returned, and ret[t] is what it returned.
Returned(t, f) == pc[t] = "ready" /\ fn[t] = f

\* t has decoded, as the type of value, a message that an encoding function
\* made of value.
RoundTrip(t) == Returned(t, "json") /\ arg[t].src \in Encoders /\ T = S

\* v and the values inside it, map keys among them.
RECURSIVE Parts(_)
Parts(v) ==
    {v} \cup (IF v[1] = "Vec" THEN UNION {Parts(v[2][i]) : i \in 1..Len(v[2])}
              ELSE IF v[1] = "Map"
              THEN UNION {Parts(v[2][i][1]) \cup Parts(v[2][i][2]) : i \in 1..Len(v[2])}
              ELSE {})

Within(v, P(_)) == \E x \in Parts(v) : P(x)

KeyTags(v) == IF v[1] = "Map" THEN {v[2][i][1][1] : i \in 1..Len(v[2])} ELSE {}

HasNonStringKey(v) == Within(v, LAMBDA x : KeyTags(x) \ {"String"} # {})
HasIntegerKey(v) == Within(v, LAMBDA x : "i64" \in KeyTags(x))
\* a key that is no string and no number: no JSON object key stands for it
HasKeyOfNoString(v) == Within(v, LAMBDA x : KeyTags(x) \ {"String", "i64"} # {})
HasFailingSerialize(v) == Within(v, LAMBDA x : x[1] = "Custom")
HasNonFiniteFloat(v) == Within(v, LAMBDA x : x[1] = "f64" /\ x[2][1] # "fin")

IsSerdeJsonError(r) == IsErr(r) /\ r[2][1] = "Json" /\ r[2][2][1] = "SerdeJson"
IsNeitherError(r) == r = Err(ErrorFromJsonError(NeitherTextNorBinaryMessage))

\* The bytes of a Text or Binary body.
BodyBytes(m) == IF m[1] = "Text" THEN Utf8Encode(m[2]) ELSE m[2]

IsPrefix(p, b) == Len(p) <= Len(b) /\ SubSeq(b, 1, Len(p)) = p

C2_WrongVariant ==
    \A t \in Tasks : fn[t] = "json" /\ arg[t].m[1] \notin {"Text", "Binary"} =>
        /\ lib[t] = "none"
        /\ tmp[t] = NoResult
        /\ pc[t] = "ready" => IsNeitherError(ret[t])

\* json has returned on a Ping whose payload is JSON of the target type.
C2_Witness ==
    \E t \in Tasks : /\ Returned(t, "json")
                     /\ arg[t].m[1] = "Ping"
                     /\ IsOk(from_slice(T, arg[t].m[2]))
                     /\ IsNeitherError(ret[t])

(***************************************************************************)
(* C3.  json on a Text or Binary message whose body is no JSON of the      *)
(* target type returns the SerdeJson error wrapping the parser's error:    *)
(* never a value, never the NeitherTextNorBinaryMessage error.             *)
(* Bodies known to be no JSON of T, whatever the parser says:              *)
(*   - a cut-off encoding of a value that is no number, and any encoding   *)
(*     followed by a comma;                                                *)
(*   - {not json, and the byte 255;                                        *)
(*   - the encoding of a value whose JSON kind is not the one T takes.     *)
(***************************************************************************)
IsNumber(v) == v[1] \in {"i64", "f64"}

Encoding == IF IsOk(to_vec(value)) THEN to_vec(value)[2] ELSE Ident.null

CutOff(b) ==
    \/ ~IsNumber(value) /\ IsOk(to_vec(value)) /\ IsPrefix(b, Encoding) /\ b # Encoding
    \/ b = Encoding \o <<Byte.comma>>
    \/ b \in {NotJson, <<255>>, <<>>}

JsonKind(v) ==
    CASE v[1] = "unit" -> "null"
      [] v[1] = "bool" -> "bool"
      [] v[1] = "i64" -> "integer"
      [] v[1] = "f64" -> IF v[2][1] = "fin" THEN "float" ELSE "null"
      [] v[1] = "String" -> "string"
      [] v[1] = "Vec" -> "array"
      [] v[1] = "Map" -> "object"

KindsOf(X) ==
    CASE X = TUnit -> {"null"}
      [] X = TBool -> {"bool"}
      [] X = TI64 -> {"integer"}
      [] X = TF64 -> {"integer", "float"}
      [] X = TString -> {"string"}
      [] X[1] = "Vec" -> {"array"}
      [] X[1] = "Map" -> {"object"}

OfAnotherKind(t) == arg[t].src \in Encoders /\ JsonKind(value) \notin KindsOf(T)

C3_Malformed ==
    \A t \in Tasks : Returned(t, "json") /\ arg[t].m[1] \in {"Text", "Binary"} =>
        /\ ~IsNeitherError(ret[t])
        /\ IsOk(ret[t]) \/ (IsErr(tmp[t]) /\ ret[t] = Err(ErrorFromSerdeJson(tmp[t][2])))
        /\ CutOff(BodyBytes(arg[t].m)) \/ OfAnotherKind(t) => IsSerdeJsonError(ret[t])

\* json has returned the parser's error on the Text message {not json.
C3_Witness ==
    \E t \in Tasks : /\ Returned(t, "json")
                     /\ arg[t].m = Text(NotJson)
                     /\ IsSerdeJsonError(ret[t])

(***************************************************************************)
(* C4.  text_from_json and binary_from_json of the same value both fail    *)
(* or both succeed, and then the UTF-8 bytes of the Text message are the   *)
(* bytes of the Binary message.                                            *)
(***************************************************************************)
C4_SameBytes ==
    \A t, u \in Tasks :
        Returned(t, "text_from_json") /\ Returned(u, "binary_from_json") =>
            /\ IsOk(ret[t]) <=> IsOk(ret[u])
            /\ IsOk(ret[t]) => Utf8Encode(ret[t][2][2]) = ret[u][2][2]

\* Both have returned a message of a value with a two-byte character.
C4_Witness ==
    \E t, u \in Tasks : /\ Returned(t, "text_from_json")
                        /\ Returned(u, "binary_from_json")
                        /\ value = Str(<<233, 34>>)
                        /\ IsOk(ret[t]) /\ IsOk(ret[u])

(***************************************************************************)
(* C5.  When the serializer rejects the value, text_from_json and          *)
(* binary_from_json return the SerdeJson error with the serializer's       *)
(* error and no message; when it accepts the value, they return a message. *)
(* The serializer rejects a value with a failing Serialize implementation  *)
(* or with a map key that is no string and no number.                      *)
(***************************************************************************)
Rejected(v) == HasFailingSerialize(v) \/ HasKeyOfNoString(v)

C5_EncodeFailure ==
    \A t \in Tasks : \A f \in Encoders : Returned(t, f) =>
        /\ Rejected(value) => IsErr(tmp[t]) /\ ret[t] = Err(ErrorFromSerdeJson(tmp[t][2]))
        /\ ~Rejected(value) =>
              /\ IsOk(tmp[t])
              /\ ret[t] = Ok(IF f = "text_from_json" THEN Text(tmp[t][2])
                             ELSE Binary(tmp[t][2]))

\* text_from_json has returned the error of a failing Serialize.
C5_Witness ==
    \E t \in Tasks : /\ Returned(t, "text_from_json")
                     /\ value = Custom
                     /\ ret[t] = Err(ErrorFromSerdeJson("Custom"))

(***************************************************************************)
(* C6.  Encoding a value that holds a map with integer keys returns the    *)
(* SerdeJson error, from text_from_json and from binary_from_json.         *)
(***************************************************************************)
C6_IntegerKeys ==
    \A t \in Tasks : \A f \in Encoders :
        Returned(t, f) /\ HasIntegerKey(value) => IsSerdeJsonError(ret[t])

(***************************************************************************)
(* C7.  A successful text_from_json returns a Text message holding the     *)
(* JSON text of the value, a successful binary_from_json a Binary message  *)
(* holding its bytes; no other variant is returned.  The JSON text is what *)
(* the serializer wrote; of the map {"a": 1} it is {"a":1}.                *)
(***************************************************************************)
A1 == Map(<<<<Str(<<97>>), I64(1)>>>>)
A1Json == <<123, 34, 97, 34, 58, 49, 125>>

C7_Variant ==
    \A t \in Tasks :
        /\ Returned(t, "text_from_json") /\ IsOk(ret[t]) =>
              /\ ret[t][2][1] = "Text"
              /\ IsOk(tmp[t]) /\ ret[t][2][2] = tmp[t][2]
              /\ value = A1 => ret[t][2][2] = A1Json
        /\ Returned(t, "binary_from_json") /\ IsOk(ret[t]) =>
              /\ ret[t][2][1] = "Binary"
              /\ IsOk(tmp[t]) /\ ret[t][2][2] = tmp[t][2]
              /\ value = A1 => ret[t][2][2] = A1Json

\* text_from_json has returned the Text message {"a":1}.
C7_Witness ==
    \E t \in Tasks : /\ Returned(t, "text_from_json")
                     /\ value = A1
                     /\ ret[t] = Ok(Text(A1Json))

(***************************************************************************)
(* C9.  Calls running concurrently, several decodes of one message among   *)
(* them: each returns what it returns when run alone, and no step of a     *)
(* call changes the value, the messages or anything another call holds.    *)
(***************************************************************************)
Alone(t) ==
    CASE fn[t] = "text_from_json" -> text_from_json(value)
      [] fn[t] = "binary_from_json" -> binary_from_json(value)
      [] fn[t] = "json" -> json(T, arg[t].m)
      [] OTHER -> NoResult

OfTask(t) == <<pc[t], fn[t], arg[t], lib[t], tmp[t], ret[t]>>

OnlyItsOwn == /\ UNCHANGED inputs
              /\ \E t \in Tasks : \A u \in Tasks \ {t} : OfTask(u)' = OfTask(u)

C9_Concurrent ==
    /\ [](\A t \in Tasks : pc[t] = "ready" => ret[t] = Alone(t))
    /\ [][OnlyItsOwn]_vars

\* One call of json has returned a value of a message that another call of
\* json is decoding.
C9_Witness ==
    \E t, u \in Tasks : /\ t # u
                        /\ pc[t] = "called" /\ fn[t] = "json"
                        /\ Returned(u, "json")
                        /\ arg[t].m = arg[u].m
                        /\ arg[u].src = "text_from_json"
                        /\ ret[u] = Ok(value)

(***************************************************************************)
(* C10.  Every error returned is of the SerdeJson kind or of the           *)
(* NeitherTextNorBinaryMessage kind; the latter is returned by json only,  *)
(* and only for a message that is neither Text nor Binary.                 *)
(***************************************************************************)
C10_Taxonomy ==
    \A t \in Tasks : pc[t] = "ready" /\ IsErr(ret[t]) =>
        /\ IsSerdeJsonError(ret[t]) \/ IsNeitherError(ret[t])
        /\ IsNeitherError(ret[t]) =>
              fn[t] = "json" /\ arg[t].m[1] \notin {"Text", "Binary"}

\* binary_from_json has returned a SerdeJson error.
C10_Witness ==
    \E t \in Tasks : /\ Returned(t, "binary_from_json")
                     /\ IsSerdeJsonError(ret[t])
                     /\ ~IsNeitherError(ret[t])

====
